---------------------------- MODULE Spec2Model ----------------------------
(***************************************************************************)
(* Device detection middleware of package mobile (src/mobile.go).          *)
(*                                                                         *)
(* A Go string is modelled as a sequence of one-character strings, so that *)
(* strings.ToLower, strings.Contains and the slice agent[:4] are computed  *)
(* character by character.  An http.Header maps each header name to the    *)
(* list of its values; a gin.Context carries the per-request Keys map.     *)
(***************************************************************************)
EXTENDS Integers, Sequences, FiniteSets, TLC

VARIABLES
    header,                   \* header[r]: c.Request.Header of request r
    pc,                       \* pc[r]: position of request r in its handler chain
    d,                        \* d[r]: local variable d of the Resolver closure
    keys,                     \* keys[r]: the Keys map of request r's gin.Context
    got,                      \* got[r]: outcome of the last GetDevice(c) call
    MobileUserAgentPrefixes,  \* package-level var
    MobileUserAgentKeywords,  \* package-level var
    TabletUserAgentKeywords   \* package-level var

tables == <<MobileUserAgentPrefixes, MobileUserAgentKeywords, TabletUserAgentKeywords>>
vars == <<header, pc, d, keys, got, MobileUserAgentPrefixes, MobileUserAgentKeywords,
          TabletUserAgentKeywords>>

-----------------------------------------------------------------------------
(* Constants of the package.                                               *)

DefaultKey == "github.com/floresj/go-contrib-mobile"
Android     == <<"a","n","d","r","o","i","d">>
Mobile      == <<"m","o","b","i","l","e">>
Ipad        == <<"i","p","a","d">>
Iphone      == <<"i","p","h","o","n","e">>
Ipod        == <<"i","p","o","d">>
Ios         == <<"i","o","s">>
Kindle      == <<"K","i","n","d","l","e">>
Silk        == <<"S","i","l","k">>
Unknown     == <<"U","n","k","n","o","w","n">>
Wap         == <<"w","a","p">>
XwapProfile == "X-Wap-Profile"
Profile     == "Profile"

MobileUserAgentPrefixesInit ==
    << <<"w","3","c"," ">>, <<"w","3","c","-">>, <<"a","c","s","-">>, <<"a","l","a","v">>,
       <<"a","l","c","a">>, <<"a","m","o","i">>, <<"a","u","d","i">>, <<"a","v","a","n">>,
       <<"b","e","n","q">>, <<"b","i","r","d">>, <<"b","l","a","c">>, <<"b","l","a","z">>,
       <<"b","r","e","w">>, <<"c","e","l","l">>, <<"c","l","d","c">>, <<"c","m","d","-">>,
       <<"d","a","n","g">>, <<"d","o","c","o">>, <<"e","r","i","c">>, <<"h","i","p","t">>,
       <<"h","t","c","_">>, <<"i","n","n","o">>, <<"i","p","a","q">>, <<"i","p","o","d">>,
       <<"j","i","g","s">>, <<"k","d","d","i">>, <<"k","e","j","i">>, <<"l","e","n","o">>,
       <<"l","g","-","c">>, <<"l","g","-","d">>, <<"l","g","-","g">>, <<"l","g","e","-">>,
       <<"l","g","/","u">>, <<"m","a","u","i">>, <<"m","a","x","o">>, <<"m","i","d","p">>,
       <<"m","i","t","s">>, <<"m","m","e","f">>, <<"m","o","b","i">>, <<"m","o","t","-">>,
       <<"m","o","t","o">>, <<"m","w","b","p">>, <<"n","e","c","-">>, <<"n","e","w","t">>,
       <<"n","o","k","i">>, <<"p","a","l","m">>, <<"p","a","n","a">>, <<"p","a","n","t">>,
       <<"p","h","i","l">>, <<"p","l","a","y">>, <<"p","o","r","t">>, <<"p","r","o","x">>,
       <<"q","w","a","p">>, <<"s","a","g","e">>, <<"s","a","m","s">>, <<"s","a","n","y">>,
       <<"s","c","h","-">>, <<"s","e","c","-">>, <<"s","e","n","d">>, <<"s","e","r","i">>,
       <<"s","g","h","-">>, <<"s","h","a","r">>, <<"s","i","e","-">>, <<"s","i","e","m">>,
       <<"s","m","a","l">>, <<"s","m","a","r">>, <<"s","o","n","y">>, <<"s","p","h","-">>,
       <<"s","y","m","b">>, <<"t","-","m","o">>, <<"t","e","l","i">>, <<"t","i","m","-">>,
       <<"t","o","s","h">>, <<"t","s","m","-">>, <<"u","p","g","1">>, <<"u","p","s","i">>,
       <<"v","k","-","v">>, <<"v","o","d","a">>, <<"w","a","p","-">>, <<"w","a","p","a">>,
       <<"w","a","p","i">>, <<"w","a","p","p">>, <<"w","a","p","r">>, <<"w","e","b","c">>,
       <<"w","i","n","w">>, <<"w","i","n","w">>, <<"x","d","a"," ">>, <<"x","d","a","-">> >>
MobileUserAgentKeywordsInit ==
    << <<"b","l","a","c","k","b","e","r","r","y">>, <<"w","e","b","o","s">>,
       <<"i","p","o","d">>, <<"l","g","e"," ","v","x">>,
       <<"m","i","d","p">>, <<"m","a","e","m","o">>,
       <<"m","m","p">>, <<"m","o","b","i","l","e">>,
       <<"n","e","t","f","r","o","n","t">>, <<"h","i","p","t","o","p">>,
       <<"n","i","n","t","e","n","d","o"," ","D","S">>, <<"n","o","v","a","r","r","a">>,
       <<"o","p","e","n","w","e","b">>, <<"o","p","e","r","a"," ","m","o","b","i">>,
       <<"o","p","e","r","a"," ","m","i","n","i">>, <<"p","a","l","m">>,
       <<"p","s","p">>, <<"p","h","o","n","e">>,
       <<"s","m","a","r","t","p","h","o","n","e">>, <<"s","y","m","b","i","a","n">>,
       <<"u","p",".","b","r","o","w","s","e","r">>, <<"u","p",".","l","i","n","k">>,
       <<"w","a","p">>, <<"w","i","n","d","o","w","s"," ","c","e">> >>
TabletUserAgentKeywordsInit ==
    << <<"i","p","a","d">>, <<"p","l","a","y","b","o","o","k">>,
       <<"h","p","-","t","a","b","l","e","t">>, <<"k","i","n","d","l","e">> >>
-----------------------------------------------------------------------------
(* Go strings.                                                             *)

UpperChars == <<"A","B","C","D","E","F","G","H","I","J","K","L","M","N","O","P","Q","R","S","T","U","V","W","X","Y","Z">>
LowerChars == <<"a","b","c","d","e","f","g","h","i","j","k","l","m","n","o","p","q","r","s","t","u","v","w","x","y","z">>

ToLowerChar(c) ==
    IF \E i \in 1..Len(UpperChars) : UpperChars[i] = c
    THEN LowerChars[CHOOSE i \in 1..Len(UpperChars) : UpperChars[i] = c]
    ELSE c

\* strings.ToLower
ToLower(s) == [i \in 1..Len(s) |-> ToLowerChar(s[i])]

\* strings.Contains
Contains(s, substr) ==
    \E i \in 0..(Len(s) - Len(substr)) : SubSeq(s, i + 1, i + Len(substr)) = substr

\* A run-time panic: a failed slice, a failed MustGet, a failed type assertion.
Panic == [panic |-> TRUE]

\* The slice expression s[:hi]; out of range panics.
SliceTo(s, hi) == IF hi > Len(s) THEN Panic ELSE SubSeq(s, 1, hi)

\* http.Header.Get: the first value of the header, "" when there is none.
Get(h, name) == IF Len(h[name]) = 0 THEN <<>> ELSE h[name][1]

-----------------------------------------------------------------------------
(* type device struct and the composite literals of resolveDevice.         *)

\* The zero value of struct device.
deviceZero == [normal |-> FALSE, mobile |-> FALSE, tablet |-> FALSE, platform |-> <<>>]

\* &device{tablet: true, platform: p}
TabletDevice(p) == [deviceZero EXCEPT !.tablet = TRUE, !.platform = p]

\* &device{mobile: true, platform: p}
MobileDevice(p) == [deviceZero EXCEPT !.mobile = TRUE, !.platform = p]

\* Faulty variant of the default result: the literal without normal: true.
NormalDeviceUnflagged == [deviceZero EXCEPT !.platform = Unknown]

\* &device{normal: true, platform: Unknown}
NormalDevice == [deviceZero EXCEPT !.normal = TRUE, !.platform = Unknown]

\* Methods of *device.
Normal(dev)   == dev.normal
IsMobile(dev) == dev.mobile
Tablet(dev)   == dev.tablet
Platform(dev) == dev.platform

\* A value of dynamic type *device, the only implementation of Device.
IsDevice(v) == DOMAIN v = {"normal", "mobile", "tablet", "platform"}

-----------------------------------------------------------------------------
(* resolveDevice, one operator per block of the function.  A block yields  *)
(* the Device it returns, or FallThrough when control leaves the block     *)
(* without returning.                                                      *)

FallThrough == [fallthrough |-> TRUE]

\* for _, keyword := range table { if strings.Contains(agent, keyword) ... }
ContainsAny(agent, table) == \E i \in 1..Len(table) : Contains(agent, table[i])

\* Faulty variant of the tablet block: the whole block is skipped for an
\* agent that contains "mobile".
TabletCheckUnlessMobile(agent) ==
    IF agent # <<>> /\ ~Contains(agent, Mobile)
    THEN CASE Contains(agent, Android) -> TabletDevice(Android)
           [] Contains(agent, Ipad) -> TabletDevice(Ipad)
           [] Contains(agent, Silk) -> TabletDevice(Kindle)
           [] OTHER -> IF ContainsAny(agent, TabletUserAgentKeywords)
                       THEN TabletDevice(Unknown)
                       ELSE FallThrough
    ELSE FallThrough

\* Faulty variant of the tablet block: the first case lacks the test for
\* "mobile".
TabletCheckAndroidAlways(agent) ==
    IF agent # <<>>
    THEN CASE Contains(agent, Android) -> TabletDevice(Android)
           [] Contains(agent, Ipad) -> TabletDevice(Ipad)
           [] Contains(agent, Silk) /\ ~Contains(agent, Mobile) -> TabletDevice(Kindle)
           [] OTHER -> IF ContainsAny(agent, TabletUserAgentKeywords)
                       THEN TabletDevice(Unknown)
                       ELSE FallThrough
    ELSE FallThrough

\* "Check Tablet"
TabletCheck(agent) ==
    IF agent # <<>>
    THEN CASE Contains(agent, Android) /\ ~Contains(agent, Mobile) -> TabletDevice(Android)
           [] Contains(agent, Ipad) -> TabletDevice(Ipad)
           [] Contains(agent, Silk) /\ ~Contains(agent, Mobile) -> TabletDevice(Kindle)
           [] OTHER -> IF ContainsAny(agent, TabletUserAgentKeywords)
                       THEN TabletDevice(Unknown)
                       ELSE FallThrough
    ELSE FallThrough

\* Faulty variant of the profile block: the inner test agent != "" is missing.
ProfileCheckEmptyAgent(h, agent) ==
    LET xWapProfile == Get(h, XwapProfile)
        profile == Get(h, Profile)
    IN  IF xWapProfile # <<>> \/ profile # <<>>
        THEN CASE Contains(agent, Android) -> MobileDevice(Android)
               [] Contains(agent, Iphone) \/ Contains(agent, Ipod) \/ Contains(agent, Ipad)
                    -> MobileDevice(Ios)
               [] OTHER -> MobileDevice(Unknown)
        ELSE FallThrough

\* "User Agent Profile detection"
ProfileCheck(h, agent) ==
    LET xWapProfile == Get(h, XwapProfile)
        profile == Get(h, Profile)
    IN  IF (xWapProfile # <<>> \/ profile # <<>>) /\ agent # <<>>
        THEN CASE Contains(agent, Android) -> MobileDevice(Android)
               [] Contains(agent, Iphone) \/ Contains(agent, Ipod) \/ Contains(agent, Ipad)
                    -> MobileDevice(Ios)
               [] OTHER -> MobileDevice(Unknown)
        ELSE FallThrough

\* Faulty variant of the prefix block: the test len(agent) >= 4 is missing.
PrefixCheckUnguarded(agent) ==
    LET prefix == SliceTo(agent, 4)
    IN  IF prefix = Panic THEN Panic
        ELSE IF ContainsAny(prefix, MobileUserAgentPrefixes)
             THEN MobileDevice(Unknown)
             ELSE FallThrough

\* "User Agent Prefix check"
PrefixCheck(agent) ==
    IF agent # <<>> /\ Len(agent) >= 4
    THEN LET prefix == SliceTo(agent, 4)
         IN  IF prefix = Panic THEN Panic
             ELSE IF ContainsAny(prefix, MobileUserAgentPrefixes)
                  THEN MobileDevice(Unknown)
                  ELSE FallThrough
    ELSE FallThrough

\* "Accept Header check"
AcceptCheck(h) ==
    LET accept == Get(h, "Accept")
    IN  IF accept # <<>> /\ Contains(accept, Wap)
        THEN MobileDevice(Unknown)
        ELSE FallThrough

\* "Check Mobile"
MobileCheck(agent) ==
    IF agent # <<>>
    THEN CASE Contains(agent, Android) -> MobileDevice(Android)
           [] Contains(agent, Iphone) \/ Contains(agent, Ipod) \/ Contains(agent, Ipad)
                -> MobileDevice(Ios)
           [] OTHER -> IF ContainsAny(agent, MobileUserAgentKeywords)
                       THEN MobileDevice(Unknown)
                       ELSE FallThrough
    ELSE FallThrough

\* agent := strings.ToLower(header.Get("User-Agent"))
AgentOf(h) == ToLower(Get(h, "User-Agent"))

\* Faulty variant of resolveDevice: the prefix block precedes the profile block.
resolveDevicePrefixFirst(h) ==
    LET agent == AgentOf(h)
    IN  IF TabletCheck(agent) # FallThrough THEN TabletCheck(agent)
        ELSE IF PrefixCheck(agent) # FallThrough THEN PrefixCheck(agent)
        ELSE IF ProfileCheck(h, agent) # FallThrough THEN ProfileCheck(h, agent)
        ELSE IF AcceptCheck(h) # FallThrough THEN AcceptCheck(h)
        ELSE IF MobileCheck(agent) # FallThrough THEN MobileCheck(agent)
        ELSE NormalDevice

\* The blocks in the order of the function body; the first one that returns wins.
resolveDevice(h) ==
    LET agent == AgentOf(h)
    IN  IF TabletCheck(agent) # FallThrough THEN TabletCheck(agent)
        ELSE IF ProfileCheck(h, agent) # FallThrough THEN ProfileCheck(h, agent)
        ELSE IF PrefixCheck(agent) # FallThrough THEN PrefixCheck(agent)
        ELSE IF AcceptCheck(h) # FallThrough THEN AcceptCheck(h)
        ELSE IF MobileCheck(agent) # FallThrough THEN MobileCheck(agent)
        ELSE NormalDevice

-----------------------------------------------------------------------------
(* gin.Context: Set and MustGet on the Keys map, and GetDevice.            *)

NoKeys == [k \in {} |-> k]

\* c.Set(key, value)
Set(ks, key, value) == [k \in DOMAIN ks \cup {key} |-> IF k = key THEN value ELSE ks[k]]

\* c.MustGet(key): the value when the key exists, a panic otherwise.
MustGet(ks, key) == IF key \in DOMAIN ks THEN ks[key] ELSE Panic

\* Faulty variant of GetDevice: c.Get and a checked type assertion, which
\* yield a nil Device when the key is missing.
Nil == [nil |-> TRUE]

GetDeviceValueSilent(ks) ==
    IF DefaultKey \in DOMAIN ks /\ IsDevice(ks[DefaultKey]) THEN ks[DefaultKey] ELSE Nil

\* c.MustGet(DefaultKey).(Device)
GetDeviceValue(ks) ==
    LET v == MustGet(ks, DefaultKey)
    IN  IF v = Panic THEN Panic
        ELSE IF IsDevice(v) THEN v ELSE Panic

-----------------------------------------------------------------------------
(* Requests.                                                               *)

MaxTokens == 3
NumRequests == 2

TokAndroid == <<"A","n","d","r","o","i","d">>
TokMobile == <<"M","o","b","i","l","e">>
TokIPad == <<"i","P","a","d">>
TokSilk == <<"S","i","l","k">>
TokKindle == <<"K","i","n","d","l","e">>
TokIPhone == <<"i","P","h","o","n","e">>
TokNokia == <<"N","o","k","i","a">>
TokX == <<"x">>
AgentSilk == <<"A","m","a","z","o","n","W","e","b","A","p","p","P","l","a","t","f","o","r","m"," ","S","i","l","k","/","3",".","0">>
AgentAndroidTablet == <<"M","o","z","i","l","l","a","/","5",".","0"," ","(","L","i","n","u","x",";"," ","A","n","d","r","o","i","d"," ","1","0",")">>
AgentIPad == <<"M","o","z","i","l","l","a","/","5",".","0"," ","(","i","P","a","d",";"," ","C","P","U"," ","O","S"," ","1","4","_","0",")">>
AgentIPhone == <<"M","o","z","i","l","l","a","/","5",".","0"," ","(","i","P","h","o","n","e",";"," ","C","P","U"," ","i","P","h","o","n","e"," ","O","S"," ","1","4","_","0",")">>
AcceptWml == <<"a","p","p","l","i","c","a","t","i","o","n","/","v","n","d",".","w","a","p",".","w","m","l">>
AcceptUpper == <<"a","p","p","l","i","c","a","t","i","o","n","/","v","n","d",".","W","A","P",".","w","m","l">>
AcceptHtml == <<"t","e","x","t","/","h","t","m","l">>
ProfileUrl == <<"h","t","t","p",":","/","/","w","a","p",".","e","x","a","m","p","l","e","/","u","a",".","x","m","l">>

Tokens == {TokAndroid, TokMobile, TokIPad, TokSilk, TokKindle, TokIPhone, TokNokia, TokX}

\* Every concatenation of at most n tokens.
RECURSIVE AgentsOfAtMost(_)
AgentsOfAtMost(n) ==
    IF n = 0 THEN {<<>>}
    ELSE LET S == AgentsOfAtMost(n - 1) IN S \cup {a \o t : a \in S, t \in Tokens}

ExampleAgents == {AgentSilk, AgentAndroidTablet, AgentIPad, AgentIPhone}

MakeHeader(ua, xw, pr, ac) ==
    ("User-Agent" :> ua) @@ (XwapProfile :> xw) @@ (Profile :> pr) @@ ("Accept" :> ac)

\* A header is absent (no values) or holds one value, possibly the empty string.
UserAgentValues == {<<>>} \cup {<<a>> : a \in AgentsOfAtMost(MaxTokens) \cup ExampleAgents}
XwapProfileValues == {<<>>, << <<>> >>, <<ProfileUrl>>}
ProfileValues == {<<>>, <<ProfileUrl>>}
AcceptValues == {<<>>, <<AcceptWml>>, <<AcceptUpper>>}

Headers ==
    {MakeHeader(ua, xw, pr, ac) :
        ua \in UserAgentValues, xw \in XwapProfileValues, pr \in ProfileValues,
        ac \in AcceptValues}

\* The requests served concurrently under SpecConc.
ConcHeaders ==
    {MakeHeader(ua, <<>>, pr, ac) :
        ua \in {<<>>, <<AgentIPad>>, <<AgentIPhone>>, <<TokAndroid \o TokMobile>>},
        pr \in {<<>>, <<ProfileUrl>>}, ac \in {<<AcceptHtml>>}}

Requests == DOMAIN header

-----------------------------------------------------------------------------
(* The handler chain of one request: handlers registered before Resolver,  *)
(* the Resolver closure (three statements), the handlers after it.         *)

NotCalled == [called |-> FALSE]

InitWith(reqs, hs) ==
    /\ header \in [reqs -> hs]
    /\ pc = [r \in reqs |-> "start"]
    /\ d = [r \in reqs |-> NotCalled]
    /\ keys = [r \in reqs |-> NoKeys]
    /\ got = [r \in reqs |-> NotCalled]
    /\ MobileUserAgentPrefixes = MobileUserAgentPrefixesInit
    /\ MobileUserAgentKeywords = MobileUserAgentKeywordsInit
    /\ TabletUserAgentKeywords = TabletUserAgentKeywordsInit

Init == InitWith({1}, Headers)

InitConc == InitWith(1..NumRequests, ConcHeaders)

\* d := resolveDevice(c.Request.Header)
ResolverResolve(r) ==
    /\ pc[r] = "start"
    /\ d' = [d EXCEPT ![r] = resolveDevice(header[r])]
    /\ pc' = [pc EXCEPT ![r] = IF d'[r] = Panic THEN "panicked" ELSE "set"]
    /\ UNCHANGED <<header, keys, got, tables>>

\* Faulty variant of c.Set(DefaultKey, d): the Device goes to a store shared
\* by all requests instead of the request's own context.
ResolverSetShared(r) ==
    /\ pc[r] = "set"
    /\ keys' = [q \in Requests |-> Set(keys[q], DefaultKey, d[r])]
    /\ pc' = [pc EXCEPT ![r] = "next"]
    /\ UNCHANGED <<header, d, got, tables>>

\* c.Set(DefaultKey, d)
ResolverSet(r) ==
    /\ pc[r] = "set"
    /\ keys' = [keys EXCEPT ![r] = Set(keys[r], DefaultKey, d[r])]
    /\ pc' = [pc EXCEPT ![r] = "next"]
    /\ UNCHANGED <<header, d, got, tables>>

\* c.Next()
ResolverNext(r) ==
    /\ pc[r] = "next"
    /\ pc' = [pc EXCEPT ![r] = "handler"]
    /\ UNCHANGED <<header, d, keys, got, tables>>

\* GetDevice(c), called by a handler that runs before or after Resolver.
GetDevice(r) ==
    /\ pc[r] \in {"start", "handler"}
    /\ got' = [got EXCEPT ![r] = GetDeviceValue(keys[r])]
    /\ pc' = [pc EXCEPT ![r] = IF got'[r] = Panic THEN "panicked" ELSE "done"]
    /\ UNCHANGED <<header, d, keys, tables>>

Next ==
    \E r \in Requests :
        \/ ResolverResolve(r)
        \/ ResolverSet(r)
        \/ ResolverNext(r)
        \/ GetDevice(r)

Spec == Init /\ [][Next]_vars

SpecConc == InitConc /\ [][Next]_vars

-----------------------------------------------------------------------------
(* Properties.  Resolved(r): the Resolver of request r has computed d.     *)

Resolved(r) == d[r] # NotCalled

Stored(r) == DefaultKey \in DOMAIN keys[r]

agentOf(r) == AgentOf(header[r])

IsTabletWith(dev, p) ==
    IsDevice(dev) /\ Tablet(dev) /\ ~IsMobile(dev) /\ ~Normal(dev) /\ Platform(dev) = p

IsMobileWith(dev, p) ==
    IsDevice(dev) /\ IsMobile(dev) /\ ~Tablet(dev) /\ ~Normal(dev) /\ Platform(dev) = p

IsNormalWith(dev, p) ==
    IsDevice(dev) /\ Normal(dev) /\ ~IsMobile(dev) /\ ~Tablet(dev) /\ Platform(dev) = p

\* C1: for every header set, the Device returned by resolveDevice has exactly
\* one of Normal(), Mobile(), Tablet() true and the other two false.
C1_ExactlyOneCategory ==
    \A r \in Requests :
        Resolved(r) =>
            /\ IsDevice(d[r])
            /\ Cardinality({f \in {"normal", "mobile", "tablet"} : d[r][f]}) = 1

\* A request sent with a profile header and a wap Accept header has been
\* resolved to tablet.
C1_Witness ==
    \E r \in Requests :
        /\ Resolved(r) /\ IsDevice(d[r]) /\ Tablet(d[r])
        /\ Get(header[r], Profile) # <<>>
        /\ Contains(Get(header[r], "Accept"), Wap)

SilkLower == <<"s", "i", "l", "k">>

\* C2: every request whose lowercased User-Agent contains "silk" and none of
\* "mobile", "android", "ipad" is classified tablet with platform Kindle.
C2_SilkIsKindleTablet ==
    \A r \in Requests :
        ( /\ Resolved(r)
          /\ Contains(agentOf(r), SilkLower)
          /\ ~Contains(agentOf(r), Mobile)
          /\ ~Contains(agentOf(r), Android)
          /\ ~Contains(agentOf(r), Ipad) )
        => IsTabletWith(d[r], Kindle)

\* C3: the Platform() of the Device returned by resolveDevice is one of the
\* four tags Android, iOS, Kindle, Unknown.
C3_PlatformIsOneOfFour ==
    \A r \in Requests :
        (Resolved(r) /\ IsDevice(d[r])) => Platform(d[r]) \in {Android, Ios, Kindle, Unknown}

\* C4: every header set whose lowercased User-Agent contains "ipad" is
\* classified tablet, whatever else the agent contains and whatever the
\* X-Wap-Profile, Profile and Accept headers hold; it is never mobile.
C4_IpadIsTablet ==
    \A r \in Requests :
        (Resolved(r) /\ Contains(agentOf(r), Ipad)) =>
            IsDevice(d[r]) /\ Tablet(d[r]) /\ ~IsMobile(d[r]) /\ ~Normal(d[r])

\* An "ipad" agent that also contains "android" and "mobile", sent with a
\* profile header and a wap Accept header, has been resolved.
C4_Witness ==
    \E r \in Requests :
        /\ Resolved(r)
        /\ Contains(agentOf(r), Ipad)
        /\ Contains(agentOf(r), Mobile)
        /\ Contains(agentOf(r), Android)
        /\ Get(header[r], XwapProfile) # <<>>
        /\ Contains(Get(header[r], "Accept"), Wap)

\* C5 as stated: every header set whose lowercased User-Agent contains both
\* "android" and "mobile" is classified mobile, not tablet.
C5_AndroidMobileIsMobile ==
    \A r \in Requests :
        (Resolved(r) /\ Contains(agentOf(r), Android) /\ Contains(agentOf(r), Mobile)) =>
            IsDevice(d[r]) /\ IsMobile(d[r]) /\ ~Tablet(d[r])

\* C5 amended: an agent containing both "android" and "mobile" is classified
\* mobile unless it also contains one of the tablet keywords ipad, playbook,
\* hp-tablet, kindle, in which case it is classified tablet.
C5_AndroidMobileUnlessTabletKeyword ==
    \A r \in Requests :
        (Resolved(r) /\ Contains(agentOf(r), Android) /\ Contains(agentOf(r), Mobile)) =>
            /\ IsDevice(d[r])
            /\ IF ContainsAny(agentOf(r), TabletUserAgentKeywordsInit)
               THEN Tablet(d[r]) /\ ~IsMobile(d[r]) /\ ~Normal(d[r])
               ELSE IsMobile(d[r]) /\ ~Tablet(d[r]) /\ ~Normal(d[r])

\* An agent with "android" and "mobile" and no tablet keyword has been
\* resolved, with neither profile header nor wap Accept: the mobile-keyword
\* block decided.
C5_Witness ==
    \E r \in Requests :
        /\ Resolved(r)
        /\ Contains(agentOf(r), Android) /\ Contains(agentOf(r), Mobile)
        /\ ~ContainsAny(agentOf(r), TabletUserAgentKeywordsInit)
        /\ Get(header[r], XwapProfile) = <<>> /\ Get(header[r], Profile) = <<>>
        /\ Get(header[r], "Accept") = <<>>

\* C6: a GetDevice call made while no Device is stored for the request panics;
\* a call made after Resolver has run returns, without panicking, exactly the
\* Device resolveDevice computes from the request's headers.
C6_GetDevicePanicsOrReturnsStored ==
    [][\A r \in Requests :
          got'[r] # got[r] =>
              /\ ~Stored(r) => (got'[r] = Panic /\ pc'[r] = "panicked")
              /\ pc[r] = "handler" =>
                    /\ Stored(r)
                    /\ IsDevice(got'[r])
                    /\ got'[r] = resolveDevice(header[r])
                    /\ pc'[r] = "done"]_vars

\* One request called GetDevice before Resolver and panicked, another called
\* it after Resolver and got its Device.
C6_Witness ==
    \E r1, r2 \in Requests :
        /\ got[r1] = Panic /\ ~Stored(r1)
        /\ IsDevice(got[r2]) /\ pc[r2] = "done"

\* C7: resolveDevice never fails; for a User-Agent of length 0 to 3 the prefix
\* block is skipped and returns nothing.
C7_TotalAndShortAgentSkipsPrefix ==
    \A r \in Requests :
        /\ pc[r] = "panicked" => got[r] = Panic
        /\ Resolved(r) =>
              /\ d[r] # Panic
              /\ IsDevice(d[r])
              /\ Len(agentOf(r)) < 4 => PrefixCheck(agentOf(r)) = FallThrough

\* A request with a three-character User-Agent has been resolved.
C7_Witness ==
    \E r \in Requests : Resolved(r) /\ Len(agentOf(r)) = 3 /\ IsDevice(d[r])

\* C8: under any interleaving of concurrent requests the Device stored for a
\* request is the classification of its own headers, equal headers give equal
\* Devices, and no step changes a header set or one of the three tables.
C8_StoredIsOwnClassification ==
    /\ [](\A r \in Requests :
             Stored(r) => keys[r][DefaultKey] = resolveDevice(header[r]))
    /\ [](\A r1, r2 \in Requests :
             (Stored(r1) /\ Stored(r2) /\ header[r1] = header[r2]) =>
                 keys[r1][DefaultKey] = keys[r2][DefaultKey])
    /\ [][header' = header /\ tables' = tables]_vars
    /\ [](tables = <<MobileUserAgentPrefixesInit, MobileUserAgentKeywordsInit,
                     TabletUserAgentKeywordsInit>>)

\* Two requests with different headers are in flight, one has its Device
\* stored and differs from what the other, not yet stored, has computed.
C8_Witness ==
    \E r1, r2 \in Requests :
        /\ header[r1] # header[r2]
        /\ Stored(r1) /\ pc[r2] = "set"
        /\ keys[r1][DefaultKey] # d[r2]

\* C9: with an empty or absent User-Agent the profile headers have no effect:
\* the result is mobile / Unknown exactly when Accept contains "wap", and
\* normal / Unknown otherwise.
C9_EmptyAgentIgnoresProfile ==
    \A r \in Requests :
        (Resolved(r) /\ Get(header[r], "User-Agent") = <<>>) =>
            IF Contains(Get(header[r], "Accept"), Wap)
            THEN IsMobileWith(d[r], Unknown)
            ELSE IsNormalWith(d[r], Unknown)

\* A request without User-Agent but with a non-empty profile header has been
\* resolved to normal.
C9_Witness ==
    \E r \in Requests :
        /\ Resolved(r)
        /\ Get(header[r], "User-Agent") = <<>>
        /\ Get(header[r], XwapProfile) # <<>>
        /\ IsNormalWith(d[r], Unknown)

\* C10: when the tablet block does not match, the User-Agent is non-empty and
\* X-Wap-Profile or Profile is non-empty, the result is mobile, decided before
\* the prefix, Accept and mobile-keyword blocks, with platform Android for an
\* "android" agent, else iOS for "iphone" or "ipod", else Unknown.
C10_ProfileDecidesMobile ==
    \A r \in Requests :
        ( /\ Resolved(r)
          /\ TabletCheck(agentOf(r)) = FallThrough
          /\ Get(header[r], "User-Agent") # <<>>
          /\ (Get(header[r], XwapProfile) # <<>> \/ Get(header[r], Profile) # <<>>) )
        => IsMobileWith(d[r],
               IF Contains(agentOf(r), Android) THEN Android
               ELSE IF Contains(agentOf(r), Iphone) \/ Contains(agentOf(r), Ipod) THEN Ios
               ELSE Unknown)

\* An agent that starts with a mobile prefix and contains "iphone", sent with
\* a profile header and a wap Accept header, has been resolved to mobile / iOS.
C10_Witness ==
    \E r \in Requests :
        /\ Resolved(r)
        /\ PrefixCheck(agentOf(r)) # FallThrough
        /\ Contains(agentOf(r), Iphone)
        /\ Get(header[r], Profile) # <<>>
        /\ Contains(Get(header[r], "Accept"), Wap)
        /\ IsMobileWith(d[r], Ios)

=============================================================================
